---- MODULE Spec2Model ----
(***************************************************************************)
(* swagger2locustio: BaseGenerator (generators/base_generator.py).          *)
(*                                                                         *)
(* A generator object holds strict_level and the placeholder table          *)
(* vars_without_values.  Its methods are modelled as operators computed     *)
(* the way the Python computes them; each public call is one action that    *)
(* records the argument and the outcome (a return value or the exception    *)
(* that left the method).                                                   *)
(*                                                                         *)
(* Python values: a dict is a sequence of entries in insertion order; an    *)
(* absent key (dict.get -> None) is the value Absent; an f-string is the    *)
(* concatenation it produces.                                               *)
(***************************************************************************)
EXTENDS Integers, Sequences, FiniteSets, TLC

VARIABLES strict_level, vars_without_values, op, arg, ret

vars == <<strict_level, vars_without_values, op, arg, ret>>

-----------------------------------------------------------------------------
(* Python values *)

Absent == "<absent>"

\* bool(x) of a string-or-None value: None and "" are falsy.
Truthy(x) == x # Absent /\ x # ""

\* repr(val) of a str
Repr(x) == "'" \o x \o "'"

\* str.lower() on the location spellings the inputs use
Lower(s) ==
  CASE s = "Header" -> "header"
    [] s = "HEADER" -> "header"
    [] OTHER -> s

NoError == "none"
ValueError == "ValueError"
AttributeError == "AttributeError"

RECURSIVE SeqSum(_)
SeqSum(s) == IF s = <<>> THEN 0 ELSE Head(s) + SeqSum(Tail(s))

Injective(s) == \A i, j \in 1..Len(s) : s[i] = s[j] => i = j

\* all sequences without repetition over the set S, of length at most n
InjSeqs(S, n) ==
  UNION {{s \in [1..k -> S] : Injective(s)} : k \in 0..n}

-----------------------------------------------------------------------------
(* _extract_params *)

StrictLevels == {0, 1, 2}

EmptyBucket == [required |-> <<>>, not_required |-> <<>>]

BucketKeys == {"path_params", "query_params", "header_params", "cookie_params"}

EmptyBuckets == [k \in BucketKeys |-> EmptyBucket]

\* the if/elif chain on param_location; Absent stands for the final else
TargetParams(param_location) ==
  CASE param_location = "query" -> "query_params"
    [] param_location = "path" -> "path_params"
    [] param_location = "header" -> "header_params"
    [] param_location = "cookie" -> "cookie_params"
    [] OTHER -> Absent

RequiredType(param_config) ==
  IF param_config.required THEN "required" ELSE "not_required"

AppendTo(buckets, target, param_config) ==
  [buckets EXCEPT ![target][RequiredType(param_config)] = Append(@, param_config)]

\* faulty variant of PolicyStep: level 1 keeps only parameters with a default
PolicyStep_Level1DefaultOnly(level, buckets, target, param_config) ==
  IF level = 0
    THEN [error |-> NoError, buckets |-> AppendTo(buckets, target, param_config)]
  ELSE IF level = 1 /\ Truthy(param_config.default)
    THEN [error |-> NoError, buckets |-> AppendTo(buckets, target, param_config)]
  ELSE IF level = 2
    THEN IF Truthy(param_config.default)
           THEN [error |-> NoError, buckets |-> AppendTo(buckets, target, param_config)]
           ELSE [error |-> ValueError, buckets |-> EmptyBuckets]
  ELSE [error |-> NoError, buckets |-> buckets]

\* the strict-level branch of one loop iteration: the buckets after it, or
\* the exception it raises
PolicyStep(level, buckets, target, param_config) ==
  IF level = 0
    THEN [error |-> NoError, buckets |-> AppendTo(buckets, target, param_config)]
  ELSE IF level = 1 /\ (Truthy(param_config.default)
                         \/ (~Truthy(param_config.default) /\ param_config.required))
    THEN [error |-> NoError, buckets |-> AppendTo(buckets, target, param_config)]
  ELSE IF level = 2
    THEN IF Truthy(param_config.default)
           THEN [error |-> NoError, buckets |-> AppendTo(buckets, target, param_config)]
           ELSE [error |-> ValueError, buckets |-> EmptyBuckets]
  ELSE [error |-> NoError, buckets |-> buckets]

RECURSIVE ExtractLoop(_, _, _, _)
\* for param, param_config in params.items(): ...
ExtractLoop(level, params, i, buckets) ==
  IF i > Len(params)
    THEN [error |-> NoError, buckets |-> buckets]
    ELSE LET param_config == params[i]
             target == TargetParams(param_config.in)
         IN IF target = Absent
              THEN [error |-> ValueError, buckets |-> EmptyBuckets]
              ELSE LET step == PolicyStep(level, buckets, target, param_config)
                   IN IF step.error # NoError
                        THEN step
                        ELSE ExtractLoop(level, params, i + 1, step.buckets)

\* self._extract_params(params) with self.strict_level = level
ExtractParams(level, params) == ExtractLoop(level, params, 1, EmptyBuckets)

-----------------------------------------------------------------------------
(* _create_params_combinations *)

RECURSIVE Prepend(_, _)
Prepend(x, ss) ==
  IF ss = <<>> THEN <<>> ELSE <<(<<x>> \o Head(ss))>> \o Prepend(x, Tail(ss))

RECURSIVE Combinations(_, _)
\* itertools.combinations(s, r) as a list: the r-length subsequences of s in
\* lexicographic order of the chosen positions
Combinations(s, r) ==
  IF r = 0 THEN << <<>> >>
  ELSE IF Len(s) < r THEN <<>>
  ELSE Prepend(Head(s), Combinations(Tail(s), r - 1)) \o Combinations(Tail(s), r)

RECURSIVE WithRequired(_, _)
\* combination = required.copy(); combination += list(not_required_combination)
WithRequired(required, combs) ==
  IF combs = <<>> THEN <<>>
  ELSE <<(required \o Head(combs))>> \o WithRequired(required, Tail(combs))

RECURSIVE CombinationsUpTo(_, _, _, _)
\* for combination_count in range(last): ...
CombinationsUpTo(required, not_required, combination_count, last) ==
  IF combination_count >= last THEN <<>>
  ELSE WithRequired(required, Combinations(not_required, combination_count))
       \o CombinationsUpTo(required, not_required, combination_count + 1, last)

\* faulty variant of CreateParamsCombinations: range(len(...)) without the + 1
CreateParamsCombinations_RangeLen(params) ==
  CombinationsUpTo(params.required, params.not_required, 0, Len(params.not_required))

CreateParamsCombinations(params) ==
  CombinationsUpTo(params.required, params.not_required, 0,
                   Len(params.not_required) + 1)

-----------------------------------------------------------------------------
(* generate_params *)

GenerateParams(level, params) ==
  LET extracted_params == ExtractParams(level, params)
  IN IF extracted_params.error # NoError
       THEN [error |-> extracted_params.error,
             combinations |-> [k \in BucketKeys |-> <<>>]]
       ELSE [error |-> NoError,
             combinations |->
               [k \in BucketKeys |-> CreateParamsCombinations(extracted_params.buckets[k])]]

-----------------------------------------------------------------------------
(* _format_params *)

\* d[k] = v on a dict kept as its entries in insertion order
DictSet(d, k, v) ==
  IF \E i \in 1..Len(d) : d[i].key = k
    THEN [i \in 1..Len(d) |-> IF d[i].key = k THEN [key |-> k, value |-> v] ELSE d[i]]
    ELSE Append(d, [key |-> k, value |-> v])

DictKeys(d) == {d[i].key : i \in 1..Len(d)}

\* f"{name}_test_{test_count}"
PlaceholderToken(name, test_count) == name \o "_test_" \o ToString(test_count)

RECURSIVE FormatLoop(_, _, _, _, _)
\* for param in raw_params: the rendered pairs and the placeholder table
FormatLoop(table, raw_params, i, test_count, pairs) ==
  IF i > Len(raw_params)
    THEN [pairs |-> pairs, table |-> table]
    ELSE LET param == raw_params[i]
             name == param.name
             val == param.default
         IN IF ~Truthy(val)
              THEN FormatLoop(DictSet(table, PlaceholderToken(name, test_count), param),
                              raw_params, i + 1, test_count,
                              Append(pairs, [key |-> name,
                                             val |-> PlaceholderToken(name, test_count)]))
              ELSE FormatLoop(table, raw_params, i + 1, test_count,
                              Append(pairs, [key |-> name, val |-> Repr(val)]))

\* self._format_params(raw_params, test_count, param_type): the formatted block
\* (the pairs in order, joined path-style or as a mapping literal) and
\* self.vars_without_values after the call
FormatParams(table, raw_params, test_count, param_type) ==
  LET done == FormatLoop(table, raw_params, 1, test_count, <<>>)
  IN [formatted |-> [style |-> IF param_type = "path" THEN "path" ELSE "dict",
                     pairs |-> done.pairs],
      table |-> done.table]

-----------------------------------------------------------------------------
(* generate_test_cases *)

\* f"test_{test_count}_case_{case}"
FuncName(test_count, case) ==
  "test_" \o ToString(test_count) \o "_case_" \o ToString(case)

\* faulty variant of EmitFunc: the case index is left out of the name
EmitFunc_NameWithoutCase(ctx, path_parameters, query_parameters, header_parameters, cookie_parameters, st) ==
  LET pf == FormatParams(st.table, path_parameters, ctx.test_count, "path")
      qf == FormatParams(pf.table, query_parameters, ctx.test_count, "query")
      hf == FormatParams(qf.table, header_parameters, ctx.test_count, "header")
      cf == FormatParams(hf.table, cookie_parameters, ctx.test_count, "cookie")
  IN [funcs |-> Append(st.funcs,
                       [func_name |-> "test_" \o ToString(ctx.test_count),
                        method |-> ctx.method,
                        path |-> ctx.path,
                        path_params |-> pf.formatted,
                        query_params |-> qf.formatted,
                        header_params |-> hf.formatted,
                        cookie_params |-> cf.formatted]),
      case |-> st.case + 1,
      table |-> cf.table]

\* the body of the innermost loop: funcs.append(FUNC_TEMPLATE.render(...)); case += 1
EmitFunc(ctx, path_parameters, query_parameters, header_parameters, cookie_parameters, st) ==
  LET pf == FormatParams(st.table, path_parameters, ctx.test_count, "path")
      qf == FormatParams(pf.table, query_parameters, ctx.test_count, "query")
      hf == FormatParams(qf.table, header_parameters, ctx.test_count, "header")
      cf == FormatParams(hf.table, cookie_parameters, ctx.test_count, "cookie")
  IN [funcs |-> Append(st.funcs,
                       [func_name |-> FuncName(ctx.test_count, st.case),
                        method |-> ctx.method,
                        path |-> ctx.path,
                        path_params |-> pf.formatted,
                        query_params |-> qf.formatted,
                        header_params |-> hf.formatted,
                        cookie_params |-> cf.formatted]),
      case |-> st.case + 1,
      table |-> cf.table]

RECURSIVE CookieLoop(_, _, _, _, _, _)
CookieLoop(ctx, pp, qp, hp, l, st) ==
  IF l > Len(ctx.combinations["cookie_params"]) THEN st
  ELSE CookieLoop(ctx, pp, qp, hp, l + 1,
                  EmitFunc(ctx, pp, qp, hp, ctx.combinations["cookie_params"][l], st))

RECURSIVE HeaderLoop(_, _, _, _, _)
HeaderLoop(ctx, pp, qp, k, st) ==
  IF k > Len(ctx.combinations["header_params"]) THEN st
  ELSE HeaderLoop(ctx, pp, qp, k + 1,
                  CookieLoop(ctx, pp, qp, ctx.combinations["header_params"][k], 1, st))

\* faulty variant of QueryLoop and the loops under it: the cookie loop
\* outside the header loop
RECURSIVE HeaderLoop_Innermost(_, _, _, _, _, _)
HeaderLoop_Innermost(ctx, pp, qp, cp, k, st) ==
  IF k > Len(ctx.combinations["header_params"]) THEN st
  ELSE HeaderLoop_Innermost(ctx, pp, qp, cp, k + 1,
                         EmitFunc(ctx, pp, qp, ctx.combinations["header_params"][k], cp, st))

RECURSIVE CookieLoop_Outside(_, _, _, _, _)
CookieLoop_Outside(ctx, pp, qp, l, st) ==
  IF l > Len(ctx.combinations["cookie_params"]) THEN st
  ELSE CookieLoop_Outside(ctx, pp, qp, l + 1,
                       HeaderLoop_Innermost(ctx, pp, qp,
                                         ctx.combinations["cookie_params"][l], 1, st))

RECURSIVE QueryLoop_CookieBeforeHeader(_, _, _, _)
QueryLoop_CookieBeforeHeader(ctx, pp, j, st) ==
  IF j > Len(ctx.combinations["query_params"]) THEN st
  ELSE QueryLoop_CookieBeforeHeader(ctx, pp, j + 1,
         CookieLoop_Outside(ctx, pp, ctx.combinations["query_params"][j], 1, st))

RECURSIVE QueryLoop(_, _, _, _)
QueryLoop(ctx, pp, j, st) ==
  IF j > Len(ctx.combinations["query_params"]) THEN st
  ELSE QueryLoop(ctx, pp, j + 1,
                 HeaderLoop(ctx, pp, ctx.combinations["query_params"][j], 1, st))

RECURSIVE PathLoop(_, _, _)
PathLoop(ctx, i, st) ==
  IF i > Len(ctx.combinations["path_params"]) THEN st
  ELSE PathLoop(ctx, i + 1,
                QueryLoop(ctx, ctx.combinations["path_params"][i], 1, st))

\* the four nested loops of one operation, case starting at 0
EmitCases(path, method, test_count, combinations, funcs, table) ==
  PathLoop([path |-> path, method |-> method, test_count |-> test_count,
            combinations |-> combinations],
           1, [funcs |-> funcs, case |-> 0, table |-> table])

NoParamsCombinations == [k \in BucketKeys |-> << <<>> >>]

\* faulty variant of OperationStep: an operation whose extraction raises is
\* emitted as if it had no parameters
OperationStep_ErrorEmits(level, path, method_data, st) ==
  LET params_combinations == GenerateParams(level, method_data.params)
      done == EmitCases(path, method_data.method, st.test_count,
                        IF params_combinations.error # NoError
                          THEN NoParamsCombinations
                          ELSE params_combinations.combinations,
                        st.funcs, st.table)
  IN [funcs |-> done.funcs, table |-> done.table,
      test_count |-> IF params_combinations.error # NoError
                       THEN st.test_count ELSE st.test_count + 1]

\* faulty variant of OperationStep: test_count += 1 also for a skipped
\* operation
OperationStep_CountsSkipped(level, path, method_data, st) ==
  LET params_combinations == GenerateParams(level, method_data.params)
  IN IF params_combinations.error # NoError
       THEN [st EXCEPT !.test_count = @ + 1]
       ELSE LET done == EmitCases(path, method_data.method, st.test_count,
                                  params_combinations.combinations,
                                  st.funcs, st.table)
            IN [funcs |-> done.funcs, table |-> done.table,
                test_count |-> st.test_count + 1]

\* one iteration of the inner `for method, method_data` loop: try / except
\* ValueError: continue / the nested loops / test_count += 1
OperationStep(level, path, method_data, st) ==
  LET params_combinations == GenerateParams(level, method_data.params)
  IN IF params_combinations.error # NoError
       THEN st
       ELSE LET done == EmitCases(path, method_data.method, st.test_count,
                                  params_combinations.combinations,
                                  st.funcs, st.table)
            IN [funcs |-> done.funcs, table |-> done.table,
                test_count |-> st.test_count + 1]

RECURSIVE MethodLoop(_, _, _, _, _)
MethodLoop(level, path, methods_data, mi, st) ==
  IF mi > Len(methods_data) THEN st
  ELSE MethodLoop(level, path, methods_data, mi + 1,
                  OperationStep(level, path, methods_data[mi], st))

RECURSIVE PathsLoop(_, _, _, _)
PathsLoop(level, paths_data, pi, st) ==
  IF pi > Len(paths_data) THEN st
  ELSE PathsLoop(level, paths_data, pi + 1,
                 MethodLoop(level, paths_data[pi].path, paths_data[pi].methods, 1, st))

\* self.generate_test_cases(paths_data): the functions in output order (the
\* returned text is their concatenation), and self.vars_without_values after
GenerateTestCases(level, table, paths_data) ==
  PathsLoop(level, paths_data, 1, [funcs |-> <<>>, test_count |-> 0, table |-> table])

-----------------------------------------------------------------------------
(* generate_security_cases *)

AuthBasic == [template |-> "AUTH_BASIC_TEMPLATE", name |-> ""]

AuthKeyHeader(name) == [template |-> "AUTH_KEY_HEADER_TEMPLATE", name |-> name]

\* one iteration of `for security_type, security_config`: the fragments after
\* it, or the exception that leaves the method
SecurityStep(entry, security_cases) ==
  IF entry.type = "BasicAuth"
    THEN [error |-> NoError, cases |-> Append(security_cases, AuthBasic)]
  ELSE IF entry.type = "apiKey"
    THEN LET location == entry.config.in
             name == entry.config.name
         IN IF location = Absent
              THEN [error |-> AttributeError, cases |-> <<>>]  \* None.lower()
            ELSE IF Lower(location) = "header" /\ Truthy(name)
              THEN [error |-> NoError,
                    cases |-> Append(security_cases, AuthKeyHeader(name))]
            ELSE [error |-> ValueError, cases |-> <<>>]
  ELSE [error |-> NoError, cases |-> security_cases]

RECURSIVE SecurityLoop(_, _, _)
SecurityLoop(security_data, i, security_cases) ==
  IF i > Len(security_data)
    THEN [error |-> NoError, cases |-> security_cases]
    ELSE LET step == SecurityStep(security_data[i], security_cases)
         IN IF step.error # NoError
              THEN step
              ELSE SecurityLoop(security_data, i + 1, step.cases)

GenerateSecurityCases(security_data) == SecurityLoop(security_data, 1, <<>>)

-----------------------------------------------------------------------------
(* generate_code_from_template, generate_locustfile *)

\* required_vars: one line  <var> = "#"  # <var_data>  per table entry
RequiredVars(table) ==
  [i \in 1..Len(table) |-> [var |-> table[i].key, var_data |-> table[i].value]]

GenerateCodeFromTemplate(table, test_cases, security_cases, host) ==
  [required_vars |-> RequiredVars(table),
   test_cases |-> test_cases,
   security_cases |-> security_cases,
   host |-> host]

NoSecurityCases == [none |-> TRUE, fragments |-> <<>>]

NoScript == GenerateCodeFromTemplate(<<>>, <<>>, NoSecurityCases, "")

\* faulty variant of GenerateLocustfile: an error of generate_security_cases
\* is swallowed and the script is returned without security fragments
GenerateLocustfile_SwallowsError(level, table, swagger_data) ==
  LET tests == GenerateTestCases(level, table, swagger_data.paths)
      security == IF swagger_data.security # <<>>
                    THEN GenerateSecurityCases(swagger_data.security)
                    ELSE [error |-> NoError, cases |-> <<>>]
  IN [error |-> NoError,
      returned |-> TRUE,
      code |-> GenerateCodeFromTemplate(
                 tests.table, tests.funcs,
                 IF swagger_data.security # <<>> /\ security.error = NoError
                   THEN [none |-> FALSE, fragments |-> security.cases]
                   ELSE NoSecurityCases,
                 swagger_data.host),
      table |-> tests.table]

\* self.generate_locustfile(swagger_data): the outcome (the script returned, or
\* the exception raised) and self.vars_without_values after the call
GenerateLocustfile(level, table, swagger_data) ==
  LET tests == GenerateTestCases(level, table, swagger_data.paths)
      security == IF swagger_data.security # <<>>
                    THEN GenerateSecurityCases(swagger_data.security)
                    ELSE [error |-> NoError, cases |-> <<>>]
  IN IF security.error # NoError
       THEN [error |-> security.error, returned |-> FALSE, code |-> NoScript,
             table |-> tests.table]
       ELSE [error |-> NoError,
             returned |-> TRUE,
             code |-> GenerateCodeFromTemplate(
                        tests.table, tests.funcs,
                        IF swagger_data.security # <<>>
                          THEN [none |-> FALSE, fragments |-> security.cases]
                          ELSE NoSecurityCases,
                        swagger_data.host),
             table |-> tests.table]

-----------------------------------------------------------------------------
(* Inputs *)

MaxOps == 2
MaxOptional == 3

\* "body" is a location _extract_params does not know
Locations == {"path", "query", "header", "cookie", "body"}

\* no default, a default Python treats as false ("" here; 0 and False behave
\* the same), a non-empty default
Defaults == {Absent, "", "v"}

Param(name, config) ==
  [name |-> name, in |-> config.in, required |-> config.required,
   default |-> config.default]

\* every parameter configuration: location x required x default
AllConfigs == [in : Locations, required : BOOLEAN, default : Defaults]

\* the configurations with a declared default that is absent or non-empty
PlainConfigs == [in : Locations, required : BOOLEAN, default : {Absent, "v"}]

\* a few typical parameters, and a misplaced one
TypicalConfigs ==
  {[in |-> "path", required |-> TRUE, default |-> Absent],
   [in |-> "query", required |-> FALSE, default |-> Absent],
   [in |-> "header", required |-> FALSE, default |-> "v"],
   [in |-> "body", required |-> FALSE, default |-> "v"]}

\* the parameter maps whose keys, in order, are one of nameSeqs and whose
\* values are drawn from configs
ParamMaps(nameSeqs, configs) ==
  UNION {{[i \in 1..Len(ns) |-> Param(ns[i], cfg[i])] : cfg \in [1..Len(ns) -> configs]}
         : ns \in nameSeqs}

Prefixes(s) == {SubSeq(s, 1, n) : n \in 0..Len(s)}

PathNames == <<"/x", "/y">>
Methods == <<"get", "post">>

\* how many methods each path has, at most maxOps operations in all
Shapes(maxOps) ==
  {sh \in UNION {[1..n -> 1..Len(Methods)] : n \in 0..Len(PathNames)} :
     SeqSum(sh) <= maxOps}

PathsOfShape(sh, f) ==
  [i \in 1..Len(sh) |->
     [path |-> PathNames[i],
      methods |-> [j \in 1..sh[i] |->
                     [method |-> Methods[j],
                      params |-> f[SeqSum(SubSeq(sh, 1, i - 1)) + j]]]]]

\* the operations of paths_data in the order the loops meet them
RECURSIVE Operations(_)
Operations(paths_data) ==
  IF paths_data = <<>> THEN <<>>
  ELSE [j \in 1..Len(Head(paths_data).methods) |->
          [path |-> Head(paths_data).path,
           method |-> Head(paths_data).methods[j].method,
           params |-> Head(paths_data).methods[j].params]]
       \o Operations(Tail(paths_data))

\* parameter maps of the operations of a run with several operations
TypicalParamMaps == ParamMaps(Prefixes(<<"a", "b">>), TypicalConfigs)

\* parameter maps of a single operation with up to three parameters
PlainParamMaps == ParamMaps(Prefixes(<<"a", "b", "c">>), PlainConfigs)

ExtractInputs ==
  ParamMaps(InjSeqs({"a", "b"}, Cardinality({"a", "b"})), AllConfigs)

OptionalNames == {"a", "b", "c", "d"}
RequiredNames == {"r", "s"}

BucketOf(names, required) ==
  [i \in 1..Len(names) |->
     [name |-> names[i], in |-> "query", required |-> required, default |-> Absent]]

CombinationsInputs ==
  {[required |-> BucketOf(rs, TRUE), not_required |-> BucketOf(os, FALSE)] :
     rs \in InjSeqs(RequiredNames, Cardinality(RequiredNames)),
     os \in InjSeqs(OptionalNames, MaxOptional)}

NoConfig == [in |-> Absent, name |-> Absent]

ApiKeyConfigs == [in : {Absent, "header", "Header", "query"},
                  name : {Absent, "", "X-API-Key"}]

SecurityTypes == {"BasicAuth", "apiKey", "OAuth2"}

\* security mappings: scheme entries in any order, the apiKey entry with any
\* of ApiKeyConfigs
SecurityData ==
  UNION {{[i \in 1..Len(ts) |->
             [type |-> ts[i],
              config |-> IF ts[i] = "apiKey" THEN c ELSE NoConfig]] : c \in ApiKeyConfigs}
         : ts \in InjSeqs(SecurityTypes, Cardinality(SecurityTypes))}

Host == "http://localhost"

SecurityParamMaps ==
  ParamMaps(Prefixes(<<"a">>),
            {[in |-> "query", required |-> FALSE, default |-> Absent],
             [in |-> "body", required |-> FALSE, default |-> "v"]})

ReuseParamMaps ==
  {<<>>,
   <<Param("a", [in |-> "query", required |-> FALSE, default |-> Absent])>>,
   <<Param("a", [in |-> "query", required |-> FALSE, default |-> "v"])>>,
   <<Param("b", [in |-> "header", required |-> TRUE, default |-> ""])>>,
   <<Param("c", [in |-> "cookie", required |-> FALSE, default |-> Absent])>>}

ReuseSecurityData ==
  {<<>>, <<[type |-> "apiKey", config |-> [in |-> "query", name |-> "k"]]>>}

-----------------------------------------------------------------------------
(* The generator object and its calls *)

\* BaseGenerator(strict_level)
Init ==
  /\ strict_level \in StrictLevels
  /\ vars_without_values = <<>>
  /\ op = "__init__"
  /\ arg = <<>>
  /\ ret = <<>>

Fresh == op = "__init__"

\* generator.generate_test_cases(paths_data), paths_data with at most maxOps
\* operations whose parameter maps are drawn from maps
CallGenerateTestCases(maps, maxOps) ==
  \E sh \in Shapes(maxOps) :
    \E f \in [1..SeqSum(sh) -> maps] :
      LET paths_data == PathsOfShape(sh, f)
          done == GenerateTestCases(strict_level, vars_without_values, paths_data)
      IN /\ op' = "generate_test_cases"
         /\ arg' = paths_data
         /\ ret' = [funcs |-> done.funcs]
         /\ vars_without_values' = done.table
         /\ UNCHANGED strict_level

\* generator.generate_locustfile(swagger_data)
CallGenerateLocustfile(maps, maxOps, securitySet) ==
  \E sh \in Shapes(maxOps) :
    \E f \in [1..SeqSum(sh) -> maps] :
      \E security_data \in securitySet :
        LET swagger_data == [paths |-> PathsOfShape(sh, f),
                             security |-> security_data,
                             host |-> Host]
            done == GenerateLocustfile(strict_level, vars_without_values, swagger_data)
        IN /\ op' = "generate_locustfile"
           /\ arg' = swagger_data
           /\ ret' = [error |-> done.error, returned |-> done.returned,
                      code |-> done.code]
           /\ vars_without_values' = done.table
           /\ UNCHANGED strict_level

CallExtractParams(inputs) ==
  \E params \in inputs :
    /\ op' = "_extract_params"
    /\ arg' = params
    /\ ret' = ExtractParams(strict_level, params)
    /\ UNCHANGED <<strict_level, vars_without_values>>

CallCreateParamsCombinations(inputs) ==
  \E params \in inputs :
    /\ op' = "_create_params_combinations"
    /\ arg' = params
    /\ ret' = CreateParamsCombinations(params)
    /\ UNCHANGED <<strict_level, vars_without_values>>

\* generate_test_cases on a new generator, several operations
Next == Fresh /\ CallGenerateTestCases(TypicalParamMaps, MaxOps)

Spec == Init /\ [][Next]_vars

\* generate_test_cases on a new generator, one operation with up to three
\* parameters
NextCases == Fresh /\ CallGenerateTestCases(PlainParamMaps, 1)

SpecCases == Init /\ [][NextCases]_vars

\* _extract_params on a new generator
NextExtract == Fresh /\ CallExtractParams(ExtractInputs)

SpecExtract == Init /\ [][NextExtract]_vars

\* _create_params_combinations (a static method)
NextCombinations == Fresh /\ CallCreateParamsCombinations(CombinationsInputs)

SpecCombinations == Init /\ [][NextCombinations]_vars

\* generate_locustfile on a new generator, any security mapping
NextSecurity == Fresh /\ CallGenerateLocustfile(SecurityParamMaps, 1, SecurityData)

SpecSecurity == Init /\ [][NextSecurity]_vars

\* generate_locustfile called again and again on the same generator
NextReuse == CallGenerateLocustfile(ReuseParamMaps, 1, ReuseSecurityData)

SpecReuse == Init /\ [][NextReuse]_vars

-----------------------------------------------------------------------------
(* Reading a call's argument and outcome *)

Range(s) == {s[i] : i \in 1..Len(s)}

RECURSIVE Product(_)
Product(s) == IF s = <<>> THEN 1 ELSE Head(s) * Product(Tail(s))

RECURSIVE Pow2(_)
Pow2(n) == IF n = 0 THEN 1 ELSE 2 * Pow2(n - 1)

\* the operations of the paths a generate_test_cases call was given
Ops == Operations(arg)

\* the operation's parameter extraction raises
Raises(o) == ExtractParams(strict_level, o.params).error # NoError

\* how many operations before the k-th passed extraction
PassedBefore(k) == Cardinality({j \in 1..(k - 1) : ~Raises(Ops[j])})

IsFuncOf(f, o) == f.path = o.path /\ f.method = o.method

\* the functions emitted for operation o, in output order
FuncsOf(funcs, o) == SelectSeq(funcs, LAMBDA f : IsFuncOf(f, o))

CombinationCounts(o) ==
  LET c == GenerateParams(strict_level, o.params).combinations
  IN <<Len(c["path_params"]), Len(c["query_params"]),
       Len(c["header_params"]), Len(c["cookie_params"])>>

FuncPairs(f) ==
  Range(f.path_params.pairs) \cup Range(f.query_params.pairs)
    \cup Range(f.header_params.pairs) \cup Range(f.cookie_params.pairs)

\* the pair's value is a placeholder token, not a literal
IsPlaceholderPair(p, maxCount) ==
  \E n \in 0..maxCount : p.val = PlaceholderToken(p.key, n)

\* the placeholder tokens the functions reference
Tokens(funcs) ==
  UNION {{p.val : p \in {q \in FuncPairs(funcs[i]) : IsPlaceholderPair(q, Len(funcs))}}
         : i \in 1..Len(funcs)}

Keys(block) == [i \in 1..Len(block.pairs) |-> block.pairs[i].key]

Names(combination) == [i \in 1..Len(combination) |-> combination[i].name]

\* paths_data without the operations whose extraction raises
WithoutRaising(paths_data) ==
  [i \in 1..Len(paths_data) |->
     [path |-> paths_data[i].path,
      methods |-> SelectSeq(paths_data[i].methods,
                            LAMBDA m : ExtractParams(strict_level, m.params).error = NoError)]]

-----------------------------------------------------------------------------
(* C1 *)

\* C1: in generate_test_cases, an operation whose parameter extraction raises
\* is left out of the output: no function is emitted for it, every entry of
\* the placeholder table belongs to a function that was emitted, and the
\* functions and the table are those of the same run without that operation;
\* every other operation gets all of its functions (one per tuple of its
\* parameter combinations).
C1_RaisingOperationOmitted ==
  op = "generate_test_cases" =>
    /\ \A k \in 1..Len(Ops) :
         IF Raises(Ops[k])
           THEN FuncsOf(ret.funcs, Ops[k]) = <<>>
           ELSE Len(FuncsOf(ret.funcs, Ops[k])) = Product(CombinationCounts(Ops[k]))
    /\ \A i \in 1..Len(ret.funcs) :
         \E k \in 1..Len(Ops) : ~Raises(Ops[k]) /\ IsFuncOf(ret.funcs[i], Ops[k])
    /\ DictKeys(vars_without_values) \subseteq Tokens(ret.funcs)
    /\ LET clean == GenerateTestCases(strict_level, <<>>, WithoutRaising(arg))
       IN ret.funcs = clean.funcs /\ vars_without_values = clean.table

\* at strict level 2 the first operation has a required parameter without a
\* default (all locations valid) and is skipped; the second one passes and
\* gets two functions
C1_Witness ==
  /\ op = "generate_test_cases"
  /\ strict_level = 2
  /\ Len(Ops) = 2
  /\ Raises(Ops[1])
  /\ \A i \in 1..Len(Ops[1].params) : TargetParams(Ops[1].params[i].in) # Absent
  /\ \E i \in 1..Len(Ops[1].params) :
       Ops[1].params[i].required /\ Ops[1].params[i].default = Absent
  /\ ~Raises(Ops[2])
  /\ Len(FuncsOf(ret.funcs, Ops[2])) = 2
  /\ Len(ret.funcs) = 2

-----------------------------------------------------------------------------
(* C5 *)

\* C5: for every operation that passes extraction, generate_test_cases emits
\* |path combos| x |query combos| x |header combos| x |cookie combos|
\* functions, and the i-th of them (from 0) has case index i and holds the
\* combinations found by reading i as a mixed-radix number with the path
\* index as the most significant digit and the cookie index as the least.
C5_CrossProductInNestedOrder ==
  op = "generate_test_cases" =>
    \A k \in 1..Len(Ops) :
      ~Raises(Ops[k]) =>
        LET fs == FuncsOf(ret.funcs, Ops[k])
            c == GenerateParams(strict_level, Ops[k].params).combinations
            np == Len(c["path_params"])
            nq == Len(c["query_params"])
            nh == Len(c["header_params"])
            nc == Len(c["cookie_params"])
        IN /\ Len(fs) = np * nq * nh * nc
           /\ \A i \in 0..(Len(fs) - 1) :
                /\ fs[i + 1].func_name = FuncName(PassedBefore(k), i)
                /\ Keys(fs[i + 1].path_params)
                     = Names(c["path_params"][(i \div (nq * nh * nc)) + 1])
                /\ Keys(fs[i + 1].query_params)
                     = Names(c["query_params"][((i \div (nh * nc)) % nq) + 1])
                /\ Keys(fs[i + 1].header_params)
                     = Names(c["header_params"][((i \div nc) % nh) + 1])
                /\ Keys(fs[i + 1].cookie_params)
                     = Names(c["cookie_params"][(i % nc) + 1])

\* an operation with an optional path, header and cookie parameter: eight
\* functions
C5_Witness ==
  /\ op = "generate_test_cases"
  /\ Len(Ops) = 1
  /\ ~Raises(Ops[1])
  /\ CombinationCounts(Ops[1]) = <<2, 1, 2, 2>>
  /\ Len(ret.funcs) = 8

-----------------------------------------------------------------------------
(* C8 *)

\* C8: every function emitted by one run is named test_<n>_case_<c> for
\* numbers n and c, and no two functions of the run have the same name, also
\* when operations were skipped.
C8_FunctionNamesUnique ==
  op = "generate_test_cases" =>
    /\ \A i \in 1..Len(ret.funcs) :
         \E n \in 0..Len(Ops) : \E c \in 0..Len(ret.funcs) :
           ret.funcs[i].func_name = FuncName(n, c)
    /\ \A i, j \in 1..Len(ret.funcs) :
         ret.funcs[i].func_name = ret.funcs[j].func_name => i = j

\* the first operation is skipped and the second passes with four functions
C8_Witness ==
  /\ op = "generate_test_cases"
  /\ Len(Ops) = 2
  /\ Raises(Ops[1])
  /\ ~Raises(Ops[2])
  /\ Len(ret.funcs) = 4

-----------------------------------------------------------------------------
(* C10 *)

\* C10 as stated: the sequence number in an operation's function names and
\* placeholder tokens is the number of operations met before it.
C10_SequenceCountsEveryOperation ==
  op = "generate_test_cases" =>
    \A k \in 1..Len(Ops) :
      \A f \in Range(FuncsOf(ret.funcs, Ops[k])) :
        /\ \E c \in 0..Len(ret.funcs) : f.func_name = FuncName(k - 1, c)
        /\ \A p \in FuncPairs(f) :
             IsPlaceholderPair(p, Len(Ops)) => p.val = PlaceholderToken(p.key, k - 1)

\* C10, amended: the sequence number starts at 0, is not reset between paths
\* or methods, and is incremented once for each operation that passes
\* extraction (a skipped operation does not advance it): the number in an
\* operation's function names and placeholder tokens is the number of
\* operations before it that passed extraction.
C10_SequenceCountsPassedOperations ==
  op = "generate_test_cases" =>
    \A k \in 1..Len(Ops) :
      \A f \in Range(FuncsOf(ret.funcs, Ops[k])) :
        /\ \E c \in 0..Len(ret.funcs) : f.func_name = FuncName(PassedBefore(k), c)
        /\ \A p \in FuncPairs(f) :
             IsPlaceholderPair(p, Len(Ops))
               => p.val = PlaceholderToken(p.key, PassedBefore(k))

\* a skipped operation, then one on another path that passes and references
\* a placeholder
C10_Witness ==
  /\ op = "generate_test_cases"
  /\ Len(arg) = 2
  /\ Len(Ops) = 2
  /\ Raises(Ops[1])
  /\ ~Raises(Ops[2])
  /\ ret.funcs # <<>>
  /\ Tokens(ret.funcs) # {}

-----------------------------------------------------------------------------
(* C6, C7 *)

SecurityEntries == Range(arg.security)

SupportedScheme(e) ==
  \/ e.type = "BasicAuth"
  \/ /\ e.type = "apiKey"
     /\ e.config.in # Absent
     /\ Lower(e.config.in) = "header"
     /\ Truthy(e.config.name)

\* C7: every scheme entry that is neither BasicAuth nor a header apiKey with
\* a non-empty name makes the run fail with an error: the entry is never
\* skipped and no script is returned.  (Any exception counts as the error
\* here, also the AttributeError of an apiKey without a location.)
C7_UnsupportedSchemeAbortsRun ==
  (/\ op = "generate_locustfile"
   /\ \E e \in SecurityEntries : ~SupportedScheme(e))
    => ret.error # NoError /\ ~ret.returned

-----------------------------------------------------------------------------
(* C9 *)

\* C9: in the script any generate_locustfile call returns, also a later call
\* on the same generator, the declarations are exactly one per placeholder
\* token referenced by a function of that script.
C9_DeclarationsOfThisRunOnly ==
  (op = "generate_locustfile" /\ ret.returned) =>
    /\ {ret.code.required_vars[i].var : i \in 1..Len(ret.code.required_vars)}
         = Tokens(ret.code.test_cases)
    /\ \A i, j \in 1..Len(ret.code.required_vars) :
         ret.code.required_vars[i].var = ret.code.required_vars[j].var => i = j

-----------------------------------------------------------------------------
(* C2, C3 *)

ValidLocations(params) ==
  \A i \in 1..Len(params) : TargetParams(params[i].in) # Absent

\* the parameters of params, in order, that belong in bucket k / t and
\* satisfy Included
Expected(params, k, t, Included(_)) ==
  SelectSeq(params, LAMBDA p : TargetParams(p.in) = k /\ RequiredType(p) = t /\ Included(p))

\* C2: at strict level 2 an operation whose locations are all valid and whose
\* parameters without a default are all optional is not rejected, and its
\* buckets hold exactly the parameters that have a default.
C2_Level2OptionalWithoutDefaultAccepted ==
  (/\ op = "_extract_params"
   /\ strict_level = 2
   /\ ValidLocations(arg)
   /\ \A i \in 1..Len(arg) : ~Truthy(arg[i].default) => ~arg[i].required)
    => /\ ret.error = NoError
       /\ \A k \in BucketKeys : \A t \in {"required", "not_required"} :
            ret.buckets[k][t] = Expected(arg, k, t, LAMBDA p : Truthy(p.default))

\* C3 as stated: at strict level 1 a parameter is in the bucket of its
\* location and requiredness iff a default is declared for it or it is
\* required.
C3_Level1DeclaredDefaultOrRequired ==
  (op = "_extract_params" /\ strict_level = 1 /\ ValidLocations(arg))
    => /\ ret.error = NoError
       /\ \A k \in BucketKeys : \A t \in {"required", "not_required"} :
            ret.buckets[k][t]
              = Expected(arg, k, t, LAMBDA p : p.default # Absent \/ p.required)

\* C3, amended: at strict level 1, when every location is valid, no error is
\* raised and each bucket holds, in declaration order, exactly the parameters
\* of its location and requiredness that have a non-empty default (one Python
\* treats as true) or are required; an optional parameter whose default is
\* missing or empty is in no bucket.
C3_Level1NonEmptyDefaultOrRequired ==
  (op = "_extract_params" /\ strict_level = 1 /\ ValidLocations(arg))
    => /\ ret.error = NoError
       /\ \A k \in BucketKeys : \A t \in {"required", "not_required"} :
            ret.buckets[k][t]
              = Expected(arg, k, t, LAMBDA p : Truthy(p.default) \/ p.required)

\* level 1: a required parameter without a default is kept and an optional
\* one without a default is dropped
C3_Witness ==
  /\ op = "_extract_params"
  /\ strict_level = 1
  /\ Len(arg) = 2
  /\ arg[1] = [name |-> "a", in |-> "query", required |-> FALSE, default |-> Absent]
  /\ arg[2] = [name |-> "b", in |-> "query", required |-> TRUE, default |-> Absent]
  /\ ret.error = NoError
  /\ ret.buckets["query_params"] = [required |-> <<arg[2]>>, not_required |-> <<>>]

-----------------------------------------------------------------------------
(* C4 *)

\* the positions of not_required that combination c holds after the required
\* parameters
Positions(c, params) ==
  {p \in 1..Len(params.not_required) :
     params.not_required[p] \in Range(SubSeq(c, Len(params.required) + 1, Len(c)))}

\* the elements of s at the positions S, in the order of s
Pick(s, S) ==
  [i \in 1..Cardinality(S) |->
     s[CHOOSE p \in S : Cardinality({q \in S : q < p}) = i - 1]]

SetMin(S) == CHOOSE p \in S : \A q \in S : p <= q

\* S comes before T: fewer positions, or as many and lexicographically
\* smaller
Before(S, T) ==
  \/ Cardinality(S) < Cardinality(T)
  \/ /\ Cardinality(S) = Cardinality(T)
     /\ S # T
     /\ SetMin((S \ T) \cup (T \ S)) \in S

\* C4: for required R and optional O of length k, _create_params_combinations
\* returns 2^k combinations, each R followed by a subsequence of O, ordered
\* by subset size and then lexicographically by the chosen positions (so
\* every subset of O appears exactly once).
C4_PowersetInOrder ==
  op = "_create_params_combinations" =>
    /\ Len(ret) = Pow2(Len(arg.not_required))
    /\ \A i \in 1..Len(ret) :
         /\ Len(ret[i]) >= Len(arg.required)
         /\ SubSeq(ret[i], 1, Len(arg.required)) = arg.required
         /\ SubSeq(ret[i], Len(arg.required) + 1, Len(ret[i]))
              = Pick(arg.not_required, Positions(ret[i], arg))
    /\ \A i, j \in 1..Len(ret) :
         i < j => Before(Positions(ret[i], arg), Positions(ret[j], arg))

\* two required and three optional parameters: eight combinations
C4_Witness ==
  /\ op = "_create_params_combinations"
  /\ Len(arg.required) = 2
  /\ Len(arg.not_required) = 3
  /\ Len(ret) = 8

====
